---- MODULE Spec2Model ----
(***************************************************************************)
(* A model of the "mind journal" browser application: the persistence     *)
(* service (accounts, session, teacher credential, conversations, API     *)
(* key), the AI coach gateway, the student chat, and the teacher's mood   *)
(* dashboard.                                                             *)
(*                                                                         *)
(* Strings are sequences of UTF-16 code units, so that toLowerCase, trim, *)
(* toUpperCase and the hash are computed as the code computes them.       *)
(*                                                                         *)
(* Nine specifications share the variables:                               *)
(*   AccountSpec       the exported account/session functions, called in  *)
(*                     any order with any of the bounded inputs;          *)
(*   ConversationSpec  saveConversation / getConversations, likewise;     *)
(*   GatewaySpec       the gateway functions and the API-key functions;   *)
(*   StudentSpec       the application as a student drives it, from empty *)
(*                     storage: landing page, sign-up and login, chat,    *)
(*                     history;                                           *)
(*   TeacherSpec       the application as the teacher drives it, on the   *)
(*                     stores completed chats leave: login, dashboard,    *)
(*                     student management, settings;                      *)
(*   AppSpec           the whole application from empty storage, student  *)
(*                     and teacher taking turns;                          *)
(*   DashboardSpec     TeacherSpec with the API key removable from        *)
(*                     storage while the application runs;                *)
(*   TeacherCredentialSpec  verifyTeacherPassword / changeTeacherPassword *)
(*                     called in any order with any of the bounded inputs;*)
(*   HashSpec          simpleHash on every four-digit password and on     *)
(*                     strings that wrap, and one sign-up followed by one *)
(*                     login attempt.                                     *)
(***************************************************************************)
EXTENDS Integers, Sequences, FiniteSets, TLC

\* ------------------------------------------------------------ bounds
MaxUsers == 2
\* the longest list of Conversations kept under one name
MaxConversations == 2

\* ------------------------------------------------------------ strings
s_Kim == <<75, 105, 109>>
s_kim == <<107, 105, 109>>
s_KIM == <<75, 73, 77>>
s_Lee == <<76, 101, 101>>
s_constructor == <<99, 111, 110, 115, 116, 114, 117, 99, 116, 111, 114>>
s_0000 == <<48, 48, 48, 48>>
s_1234 == <<49, 50, 51, 52>>
\* "/O00": not four digits, and hashes to the same value as "0000"
s_slashO00 == <<47, 79, 48, 48>>

Null == "null"

RECURSIVE MapCodes(_, _)
MapCodes(s, f) ==
    IF s = <<>> THEN <<>> ELSE <<f[Head(s)]>> \o MapCodes(Tail(s), f)

\* String.prototype.toLowerCase on the ASCII range the inputs are drawn from
LowerCode == [c \in 0..127 |-> IF c >= 65 /\ c <= 90 THEN c + 32 ELSE c]

toLowerCase(s) == MapCodes(s, LowerCode)

\* String.prototype.toUpperCase on the ASCII range
UpperCode == [c \in 0..127 |-> IF c >= 97 /\ c <= 122 THEN c - 32 ELSE c]

toUpperCase(s) == MapCodes(s, UpperCode)

\* the white space String.prototype.trim removes (ASCII part)
IsSpace(c) == c \in {9, 10, 11, 12, 13, 32}

RECURSIVE TrimStart(_)
TrimStart(s) ==
    IF s # <<>> /\ IsSpace(Head(s)) THEN TrimStart(Tail(s)) ELSE s

RECURSIVE TrimEnd(_)
TrimEnd(s) ==
    IF s # <<>> /\ IsSpace(s[Len(s)]) THEN TrimEnd(SubSeq(s, 1, Len(s) - 1)) ELSE s

trim(s) == TrimEnd(TrimStart(s))

\* ------------------------------------------------------------ simpleHash
\* A signed 32-bit integer is handled as two 16-bit limbs so that no
\* intermediate value leaves the range of TLC's integers.
Hi16(h) == (h \div 65536) % 65536
Lo16(h) == h % 65536

FromLimbs(hi, lo) ==
    IF hi >= 32768 THEN (hi - 65536) * 65536 + lo ELSE hi * 65536 + lo

\* hash << 5 : the low 32 bits of hash * 32, as a signed integer
Shl5(h) ==
    LET lo32 == Lo16(h) * 32
        hi32 == Hi16(h) * 32 + (lo32 \div 65536)
    IN  FromLimbs(hi32 % 65536, lo32 % 65536)

\* x - y + c wrapped to a signed 32-bit integer ("hash |= 0")
SubAddInt32(x, y, c) ==
    LET lo == Lo16(x) - Lo16(y) + c
        hi == Hi16(x) - Hi16(y) + (lo \div 65536)
    IN  FromLimbs(hi % 65536, lo % 65536)

HashStepWrong(h, c) == SubAddInt32(Shl5(h), 0, c)

HashStep(h, c) == SubAddInt32(Shl5(h), h, c)

\* the loop of simpleHash: the hash after the first n code units of s
RECURSIVE HashUpTo(_, _)
HashUpTo(s, n) ==
    IF n = 0 THEN 0 ELSE HashStep(HashUpTo(s, n - 1), s[n])

RECURSIVE Digits(_)
Digits(n) ==
    IF n < 10 THEN <<48 + n>> ELSE Append(Digits(n \div 10), 48 + (n % 10))

\* Number.prototype.toString for an integer
NumberToString(n) == IF n < 0 THEN <<45>> \o Digits(0 - n) ELSE Digits(n)

simpleHash(s) == NumberToString(HashUpTo(s, Len(s)))

\* ------------------------------------------------------------ errors
\* the messages of the exceptions the services throw
DuplicateName == "DuplicateName"
InvalidCredentials == "InvalidCredentials"
CredentialMissing == "CredentialMissing"
NoError == "none"

\* ------------------------------------------------------------ accounts
\* a User record of the 'users' array
User(name, hash) == [name |-> name, passwordHash |-> hash]

\* what a service call yields: whether it returned or threw, the thrown
\* message, and the returned value
Returned(v) == [ok |-> TRUE, error |-> NoError, value |-> v]
Threw(e) == [ok |-> FALSE, error |-> e, value |-> Null]

SameNameExact(a, b) == a = b

\* the comparison of signupUser and loginUser
SameNameIgnoringCase(a, b) == toLowerCase(a) = toLowerCase(b)

NameNeverTaken(us, name) == FALSE

NameTaken(us, name) ==
    \E i \in 1..Len(us) : SameNameIgnoringCase(us[i].name, name)

\* "no user": what find yields when nothing matches (undefined) and what
\* the session holds when the item is absent (null); no stored user has an
\* empty passwordHash, since simpleHash never returns the empty string
NoUser == [name |-> <<>>, passwordHash |-> <<>>]

\* Array.prototype.find: the first user whose name matches, or NoUser
FindUser(us, name) ==
    LET hits == {i \in 1..Len(us) : SameNameIgnoringCase(us[i].name, name)}
    IN  IF hits = {} THEN NoUser
        ELSE us[CHOOSE i \in hits : \A j \in hits : i <= j]

FindIndexIgnoringCase(us, name) ==
    LET hits == {i \in 1..Len(us) : SameNameIgnoringCase(us[i].name, name)}
    IN  IF hits = {} THEN 0 ELSE CHOOSE i \in hits : \A j \in hits : i <= j

\* Array.prototype.findIndex with u.name === name: the first index, or 0
\* when there is none (the code's -1)
FindIndexExact(us, name) ==
    LET hits == {i \in 1..Len(us) : us[i].name = name}
    IN  IF hits = {} THEN 0 ELSE CHOOSE i \in hits : \A j \in hits : i <= j

\* signupUser: the result and the 'users' array afterwards
signupUser(us, name, password) ==
    IF NameTaken(us, name)
    THEN [result |-> Threw(DuplicateName), users |-> us]
    ELSE LET newUser == User(name, simpleHash(password))
         IN  [result |-> Returned(newUser), users |-> Append(us, newUser)]

LoginKeepsNoSessionOnFailure(us, item, name, password) ==
    LET user == FindUser(us, name)
    IN  IF user = NoUser \/ user.passwordHash # simpleHash(password)
        THEN [result |-> Threw(InvalidCredentials), currentUser |-> NoUser]
        ELSE [result |-> Returned(user), currentUser |-> user]

\* loginUser: the result and the sessionStorage item 'currentUser' afterwards
loginUser(us, item, name, password) ==
    LET user == FindUser(us, name)
    IN  IF user = NoUser \/ user.passwordHash # simpleHash(password)
        THEN [result |-> Threw(InvalidCredentials), currentUser |-> item]
        ELSE [result |-> Returned(user), currentUser |-> user]

ResetWithoutSaving(us, name) == us

\* resetStudentPassword: the 'users' array afterwards
resetStudentPassword(us, name) ==
    LET userIndex == FindIndexExact(us, name)
    IN  IF userIndex # 0
        THEN [us EXCEPT ![userIndex].passwordHash = simpleHash(s_0000)]
        ELSE us

\* getCurrentUser: the parsed session item, or NoUser for null
getCurrentUser(item) == item

LogoutKeepingSession(item) == item

\* logoutUser: the session item afterwards
logoutUser(item) == NoUser

\* ------------------------------------------------------------ conversations
s_hi == <<104, 105>>
s_question == <<81, 63>>
s_bye == <<66, 121, 101>>
s_joy == <<106, 111, 121>>
s_sad == <<115, 97, 100>>
s_cheer == <<58, 41>>
s_conv_ == <<99, 111, 110, 118, 95>>

Message(sender, text) == [sender |-> sender, text |-> text]
FinalSummary(mood, message) == [mood |-> mood, message |-> message]
Conversation(id, timestamp, messages, summary) ==
    [id |-> id, timestamp |-> timestamp, messages |-> messages, summary |-> summary]

\* The 'conversations' item is an object parsed from JSON: a function from
\* its own keys to arrays of Conversation. JSON.stringify followed by
\* JSON.parse gives back the strings, finite numbers, arrays and plain objects
\* a Conversation is made of, so the item is held in parsed form.
\*
\* Reading a property of that object that is not an own key finds the
\* properties every object inherits from Object.prototype ("constructor",
\* "toString", "valueOf", "hasOwnProperty", ...): functions, not arrays.
ObjectPrototypeKeys == {s_constructor}

JsArray(items) == [kind |-> "array", items |-> items]
JsFunction == [kind |-> "function", items |-> <<>>]
JsUndefined == [kind |-> "undefined", items |-> <<>>]

\* allConvos[userName]
PropertyOf(allConvos, userName) ==
    IF userName \in DOMAIN allConvos THEN JsArray(allConvos[userName])
    ELSE IF userName \in ObjectPrototypeKeys THEN JsFunction
    ELSE JsUndefined

\* v || [] : undefined is falsy; arrays (empty ones too) and functions are truthy
OrEmptyArray(v) == IF v.kind = "undefined" THEN JsArray(<<>>) ELSE v

\* getConversations: what the caller receives
getConversations(allConvos, userName) ==
    OrEmptyArray(PropertyOf(allConvos, userName))

SaveReplacingList(allConvos, userName, conversation) ==
    [result |-> Returned(Null),
     conversations |->
        [k \in DOMAIN allConvos \cup {userName} |->
            IF k = userName THEN <<conversation>> ELSE allConvos[k]]]

SaveTwice(allConvos, userName, conversation) ==
    [result |-> Returned(Null),
     conversations |->
        [k \in DOMAIN allConvos \cup {userName} |->
            IF k = userName
            THEN OrEmptyArray(PropertyOf(allConvos, userName)).items
                    \o <<conversation, conversation>>
            ELSE allConvos[k]]]

\* saveConversation: the result and the 'conversations' item afterwards;
\* spreading a value that is not iterable throws a TypeError before anything
\* is written
saveConversation(allConvos, userName, conversation) ==
    LET userConvos == OrEmptyArray(PropertyOf(allConvos, userName))
    IN  IF userConvos.kind # "array"
        THEN [result |-> Threw("TypeError"), conversations |-> allConvos]
        ELSE [result |-> Returned(Null),
              conversations |->
                 [k \in DOMAIN allConvos \cup {userName} |->
                     IF k = userName
                     THEN Append(userConvos.items, conversation)
                     ELSE allConvos[k]]]

\* ------------------------------------------------------------ API key
s_key == <<107, 49>>
s_key2 == <<107, 101, 121, 50>>
\* the localStorage item 'gemini_api_key' when it is absent (getItem: null)
NoItem == <<0>>

\* the base64 alphabet: the character of a 6-bit value
Enc6(v) ==
    IF v < 26 THEN 65 + v
    ELSE IF v < 52 THEN 97 + (v - 26)
    ELSE IF v < 62 THEN 48 + (v - 52)
    ELSE IF v = 62 THEN 43 ELSE 47

\* the 6-bit value of a base64 character, or -1 for any other character
Dec6(c) ==
    IF c >= 65 /\ c <= 90 THEN c - 65
    ELSE IF c >= 97 /\ c <= 122 THEN c - 97 + 26
    ELSE IF c >= 48 /\ c <= 57 THEN c - 48 + 52
    ELSE IF c = 43 THEN 62
    ELSE IF c = 47 THEN 63 ELSE 0 - 1

\* btoa on a string of code units below 256
RECURSIVE btoa(_)
btoa(s) ==
    IF Len(s) = 0 THEN <<>>
    ELSE IF Len(s) = 1
    THEN <<Enc6(s[1] \div 4), Enc6((s[1] % 4) * 16), 61, 61>>
    ELSE IF Len(s) = 2
    THEN <<Enc6(s[1] \div 4), Enc6((s[1] % 4) * 16 + (s[2] \div 16)),
           Enc6((s[2] % 16) * 4), 61>>
    ELSE <<Enc6(s[1] \div 4), Enc6((s[1] % 4) * 16 + (s[2] \div 16)),
           Enc6((s[2] % 16) * 4 + (s[3] \div 64)), Enc6(s[3] % 64)>>
         \o btoa(SubSeq(s, 4, Len(s)))

\* atob on a padded base64 string: [ok, value]; ok is FALSE where atob throws
RECURSIVE atob(_)
atob(e) ==
    IF Len(e) = 0 THEN [ok |-> TRUE, value |-> <<>>]
    ELSE IF Len(e) < 4 \/ Dec6(e[1]) < 0 \/ Dec6(e[2]) < 0
    THEN [ok |-> FALSE, value |-> <<>>]
    ELSE LET a == Dec6(e[1])
             b == Dec6(e[2])
             b1 == a * 4 + (b \div 16)
         IN  IF e[3] = 61 /\ e[4] = 61 /\ Len(e) = 4
             THEN [ok |-> TRUE, value |-> <<b1>>]
             ELSE IF Dec6(e[3]) < 0 THEN [ok |-> FALSE, value |-> <<>>]
             ELSE LET c == Dec6(e[3])
                      b2 == (b % 16) * 16 + (c \div 4)
                  IN  IF e[4] = 61 /\ Len(e) = 4
                      THEN [ok |-> TRUE, value |-> <<b1, b2>>]
                      ELSE IF Dec6(e[4]) < 0 THEN [ok |-> FALSE, value |-> <<>>]
                      ELSE LET rest == atob(SubSeq(e, 5, Len(e)))
                           IN  [ok |-> rest.ok,
                                value |-> <<b1, b2, (c % 4) * 64 + Dec6(e[4])>>
                                          \o rest.value]

\* saveApiKey: the item afterwards
saveApiKey(apiKey) == btoa(apiKey)

\* deleteApiKey: the item afterwards
deleteApiKey == NoItem

\* getApiKey: the key (<<>> stands for null: both are falsy to the caller)
\* and the item afterwards; an item that does not decode is deleted
getApiKey(item) ==
    IF item # NoItem /\ item # <<>>
    THEN LET d == atob(item)
         IN  IF d.ok THEN [key |-> d.value, item |-> item]
             ELSE [key |-> <<>>, item |-> deleteApiKey]
    ELSE [key |-> <<>>, item |-> item]

\* ------------------------------------------------------------ gateway
s_YELLOW == <<89, 69, 76, 76, 79, 87>>
s_RED == <<82, 69, 68>>
s_BLUE == <<66, 76, 85, 69>>
s_GREEN == <<71, 82, 69, 69, 78>>
\* " red" followed by a line feed
s_red_padded == <<32, 114, 101, 100, 10>>
s_calm == <<99, 97, 108, 109>>
s_question_padded == <<32, 81, 63, 10>>
s_bye_padded == <<66, 121, 101, 32>>

ChatResponseError == "ChatResponseError"
FinalChatResponseError == "FinalChatResponseError"
SummaryError == "SummaryError"

NoSummary == FinalSummary(<<>>, <<>>)

\* What the provider does with one generateContent request:
\*   "text"     it answers with response.text = text;
\*   "json"     it answers with text that JSON.parse turns into summary
\*              (the provider honours the response schema it was given);
\*   "notext"   it answers with no text (response.text is undefined, so
\*              .trim() throws), or, for a summary, text that is not JSON;
\*   "error"    the request fails (network, HTTP status).
ProviderText(text) == [kind |-> "text", text |-> text, summary |-> NoSummary]
ProviderJson(summary) == [kind |-> "json", text |-> <<>>, summary |-> summary]
ProviderNoText == [kind |-> "notext", text |-> <<>>, summary |-> NoSummary]
ProviderError == [kind |-> "error", text |-> <<>>, summary |-> NoSummary]

GetAIWithoutKey(item) == TRUE

\* getAI: whether a client is made, or CredentialMissing is thrown
getAI(item) == getApiKey(item).key # <<>>

\* a gateway call's result, and whether a request went to the provider
Gateway(result, sent) == [result |-> result, sent |-> sent]

\* getChatResponse
getChatResponse(item, history, outcome) ==
    IF ~getAI(item) THEN Gateway(Threw(CredentialMissing), FALSE)
    ELSE IF outcome.kind = "text"
         THEN Gateway(Returned(trim(outcome.text)), TRUE)
         ELSE Gateway(Threw(ChatResponseError), TRUE)

\* getFinalChatResponse
getFinalChatResponse(item, history, outcome) ==
    IF ~getAI(item) THEN Gateway(Threw(CredentialMissing), FALSE)
    ELSE IF outcome.kind = "text"
         THEN Gateway(Returned(trim(outcome.text)), TRUE)
         ELSE Gateway(Threw(FinalChatResponseError), TRUE)

\* getFinalSummary
getFinalSummary(item, history, outcome) ==
    IF ~getAI(item) THEN Gateway(Threw(CredentialMissing), FALSE)
    ELSE IF outcome.kind = "json"
         THEN Gateway(Returned(outcome.summary), TRUE)
         ELSE Gateway(Threw(SummaryError), TRUE)

Quadrants == {s_YELLOW, s_RED, s_BLUE, s_GREEN}

MoodWithoutFallback(item, mood, outcome) ==
    IF ~getAI(item) THEN Gateway(Threw(CredentialMissing), FALSE)
    ELSE IF outcome.kind = "text"
         THEN Gateway(Returned(toUpperCase(trim(outcome.text))), TRUE)
         ELSE Gateway(Returned(s_BLUE), TRUE)

\* getMoodMeterQuadrant: getAI() is called before the try block, so its
\* exception is not caught; everything after it is
getMoodMeterQuadrant(item, mood, outcome) ==
    IF ~getAI(item) THEN Gateway(Threw(CredentialMissing), FALSE)
    ELSE IF outcome.kind = "text"
         THEN LET quadrant == toUpperCase(trim(outcome.text))
              IN  IF quadrant \in Quadrants
                  THEN Gateway(Returned(quadrant), TRUE)
                  ELSE Gateway(Returned(s_BLUE), TRUE)
         ELSE Gateway(Returned(s_BLUE), TRUE)

\* the try block of a getMoodMeterQuadrant call whose getAI() succeeded when
\* the call was made: the quadrant it resolves to
QuadrantAwaited(mood, outcome) ==
    getMoodMeterQuadrant(saveApiKey(s_key), mood, outcome).result.value

\* ------------------------------------------------------------ teacher credential
CurrentPasswordMismatch == "CurrentPasswordMismatch"

\* getTeacherPassword: the stored hash, or the hash of "0000" when the item
\* is absent
getTeacherPassword(item) ==
    IF item = NoItem \/ item = <<>> THEN simpleHash(s_0000) ELSE item

\* verifyTeacherPassword: the answer and the item afterwards (initialised
\* when it was absent)
verifyTeacherPassword(item, password) ==
    LET storedPassword == getTeacherPassword(item)
    IN  [ok |-> simpleHash(password) = storedPassword,
         item |-> IF item = NoItem \/ item = <<>> THEN storedPassword ELSE item]

ChangeWithoutVerifying(item, oldPassword, newPassword) ==
    [result |-> Returned(Null), item |-> simpleHash(newPassword)]

\* changeTeacherPassword: the result and the item afterwards
changeTeacherPassword(item, oldPassword, newPassword) ==
    LET v == verifyTeacherPassword(item, oldPassword)
    IN  IF ~v.ok
        THEN [result |-> Threw(CurrentPasswordMismatch), item |-> v.item]
        ELSE [result |-> Returned(Null), item |-> simpleHash(newPassword)]

\* ------------------------------------------------------------ components
MAX_TURNS == 5

IsDigit(c) == c >= 48 /\ c <= 57

\* AuthForm.validatePassword: /^\d{4}$/
validatePassword(pw) == Len(pw) = 4 /\ \A i \in 1..Len(pw) : IsDigit(pw[i])

\* TeacherSettings: /^\d{4,}$/
validateNewTeacherPassword(pw) ==
    Len(pw) >= 4 /\ \A i \in 1..Len(pw) : IsDigit(pw[i])

\* the greeting ChatView opens with; it carries the user's name
s_greeting == <<72, 105, 44, 32>>
Greeting(name) == Message("ai", s_greeting \o name)

\* Array.prototype.sort with (a, b) => b.timestamp - a.timestamp: stable,
\* newest first
RECURSIVE InsertByTimestampDesc(_, _)
InsertByTimestampDesc(sorted, c) ==
    IF sorted = <<>> THEN <<c>>
    ELSE IF Head(sorted).timestamp >= c.timestamp
         THEN <<Head(sorted)>> \o InsertByTimestampDesc(Tail(sorted), c)
         ELSE <<c>> \o sorted

KeepStoredOrder(list) == list

RECURSIVE SortByTimestampDesc(_)
SortByTimestampDesc(list) ==
    IF list = <<>> THEN <<>>
    ELSE InsertByTimestampDesc(
            SortByTimestampDesc(SubSeq(list, 1, Len(list) - 1)), list[Len(list)])

\* fetchMoods, first loop: for every key of the conversations object with a
\* non-empty list, the mood and timestamp of its newest Conversation
LatestMoods(allConversations) ==
    [studentName \in {k \in DOMAIN allConversations : Len(allConversations[k]) > 0} |->
        LET latestConv == SortByTimestampDesc(allConversations[studentName])[1]
        IN  [mood |-> latestConv.summary.mood, timestamp |-> latestConv.timestamp]]

StudentMood(name, mood, quadrant, timestamp) ==
    [name |-> name, mood |-> mood, quadrant |-> quadrant, timestamp |-> timestamp]

BucketsIgnoringQuadrant(studentMoods) ==
    [quadrant \in Quadrants |-> {m \in studentMoods : quadrant = s_BLUE}]

\* moodsByQuadrant: the students of each quadrant (an array in the code, in
\* the key order of the conversations object; kept here as a set)
moodsByQuadrant(studentMoods) ==
    [quadrant \in Quadrants |-> {m \in studentMoods : m.quadrant = quadrant}]

\* ------------------------------------------------------------ state
VARIABLES
    teacherPasswordItem, \* localStorage 'teacherPassword' (NoItem when absent)
    app,                \* App: view, isApiKeySet
    student,            \* StudentView: currentUser, studentView
    chat,               \* ChatView: its state and the call it awaits
    teacher,            \* TeacherView: isLoggedIn, teacherView
    dash,               \* MoodMeterDashboard: its state and the calls it awaits
    apiKeyItem,         \* localStorage 'gemini_api_key' (NoItem when absent)
    gatewayCall,        \* the last call of a gateway or API-key function
    conversations,      \* localStorage 'conversations', parsed ({} when absent)
    convCall,           \* the last call of a conversation function and its result
    users,              \* localStorage 'users', parsed ([] when absent)
    currentUserItem,    \* sessionStorage 'currentUser', parsed (NoUser when absent)
    lastCall,           \* the last call of an exported function and its result
    signupPassword,     \* history: <<name, password>> of every successful signup
    resetNames          \* history: the stored names whose password was reset

accountVars == <<users, currentUserItem, lastCall, signupPassword, resetNames>>
convVars == <<conversations, convCall>>
gatewayVars == <<apiKeyItem, gatewayCall>>

\* everything but the account variables, and everything but the conversation
\* variables
uiVars == <<teacherPasswordItem, app, student, chat, teacher, dash>>
nonAccountVars == <<convVars, gatewayVars, uiVars>>
nonConvVars == <<accountVars, gatewayVars, uiVars>>
nonGatewayVars == <<accountVars, convVars, uiVars>>
\* the records of calls and the history, which the components do not touch
callVars == <<lastCall, convCall, gatewayCall, signupPassword, resetNames>>

vars == <<accountVars, convVars, gatewayVars, uiVars>>

\* ------------------------------------------------------------ inputs
\* names given to signupUser and resetStudentPassword
NameInputs == {s_Kim, s_kim, s_Lee}
\* names given to loginUser
LoginNameInputs == NameInputs \cup {s_KIM}
PasswordInputs == {s_0000, s_1234, s_slashO00}

Call(op, name, password, result) ==
    [op |-> op, name |-> name, password |-> password, result |-> result]

NoCall == Call("none", <<>>, <<>>, Returned(NoUser))

EmptyObject == [k \in {} |-> <<>>]

ConvCall(op, userName, conversation, before, result, returned) ==
    [op |-> op, userName |-> userName, conversation |-> conversation,
     before |-> before, result |-> result, returned |-> returned]

NoConversation == Conversation(<<>>, 0, <<>>, FinalSummary(<<>>, <<>>))

NoConvCall ==
    ConvCall("none", <<>>, NoConversation, JsUndefined, Returned(Null), JsUndefined)

GatewayCall(op, input, outcome, result, sent) ==
    [op |-> op, input |-> input, outcome |-> outcome, result |-> result,
     sent |-> sent]

NoGatewayCall == GatewayCall("none", <<>>, ProviderError, Returned(<<>>), FALSE)

\* App's state: the view shown and whether an API key was found or saved
App(view, isApiKeySet) == [view |-> view, isApiKeySet |-> isApiKeySet]

\* StudentView's state
Student(currentUser, studentView) ==
    [currentUser |-> currentUser, studentView |-> studentView]

\* the gateway call ChatView awaits: "continue", "close", "summarize", or "none"
Pending(op, history, newTurnCount) ==
    [op |-> op, history |-> history, newTurnCount |-> newTurnCount]

NoPending == Pending("none", <<>>, 0)

\* ChatView's state as useState initialises it
NoChat ==
    [messages |-> <<>>, turnCount |-> 0, isAITyping |-> FALSE,
     isConversationOver |-> FALSE, finalSummary |-> NoSummary,
     error |-> NoError, pending |-> NoPending]

\* TeacherView's state
Teacher(isLoggedIn, teacherView) ==
    [isLoggedIn |-> isLoggedIn, teacherView |-> teacherView]

NoLatestMoods == [k \in {} |-> [mood |-> <<>>, timestamp |-> 0]]
NoMoodData == [k \in {} |-> <<>>]

\* MoodMeterDashboard's state as useState initialises it, with no fetch running
NoDash ==
    [isLoading |-> TRUE, studentMoods |-> {}, latestMoods |-> NoLatestMoods,
     awaiting |-> {}, moodData |-> NoMoodData, rejected |-> FALSE]

StoreInit ==
    /\ apiKeyItem = NoItem
    /\ teacherPasswordItem = NoItem
    /\ app = App("landing", FALSE)
    /\ student = Student(NoUser, "dashboard")
    /\ chat = NoChat
    /\ teacher = Teacher(FALSE, "dashboard")
    /\ dash = NoDash
    /\ users = <<>>
    /\ currentUserItem = NoUser
    /\ conversations = EmptyObject

HistoryInit ==
    /\ lastCall = NoCall
    /\ convCall = NoConvCall
    /\ gatewayCall = NoGatewayCall
    /\ signupPassword = {}
    /\ resetNames = {}

\* ------------------------------------------------------------ AccountSpec
CallSignupUser(name, password) ==
    LET r == signupUser(users, name, password)
    IN  /\ Len(users) < MaxUsers \/ NameTaken(users, name)
        /\ users' = r.users
        /\ lastCall' = Call("signupUser", name, password, r.result)
        /\ signupPassword' = IF r.result.ok
                              THEN signupPassword \cup {<<name, password>>}
                              ELSE signupPassword
        /\ UNCHANGED <<currentUserItem, resetNames, nonAccountVars>>

CallLoginUser(name, password) ==
    LET r == loginUser(users, currentUserItem, name, password)
    IN  /\ currentUserItem' = r.currentUser
        /\ lastCall' = Call("loginUser", name, password, r.result)
        /\ UNCHANGED <<users, signupPassword, resetNames, nonAccountVars>>

CallResetStudentPassword(name) ==
    /\ users' = resetStudentPassword(users, name)
    /\ lastCall' = Call("resetStudentPassword", name, <<>>, Returned(NoUser))
    /\ resetNames' = IF FindIndexExact(users, name) # 0
                      THEN resetNames \cup {name}
                      ELSE resetNames
    /\ UNCHANGED <<currentUserItem, signupPassword, nonAccountVars>>

CallLogoutUser ==
    /\ currentUserItem' = logoutUser(currentUserItem)
    /\ lastCall' = Call("logoutUser", <<>>, <<>>, Returned(NoUser))
    /\ UNCHANGED <<users, signupPassword, resetNames, nonAccountVars>>

CallGetCurrentUser ==
    /\ lastCall' = Call("getCurrentUser", <<>>, <<>>,
                         Returned(getCurrentUser(currentUserItem)))
    /\ UNCHANGED <<users, currentUserItem, signupPassword, resetNames, nonAccountVars>>

AccountInit == StoreInit /\ HistoryInit

AccountNext ==
    \/ \E name \in NameInputs, password \in PasswordInputs :
          CallSignupUser(name, password)
    \/ \E name \in LoginNameInputs, password \in PasswordInputs :
          CallLoginUser(name, password)
    \/ \E name \in LoginNameInputs : CallResetStudentPassword(name)
    \/ CallLogoutUser
    \/ CallGetCurrentUser

AccountSpec == AccountInit /\ [][AccountNext]_vars

\* ------------------------------------------------------------ ConversationSpec
\* account names under which conversations are saved and read
ConversationNameInputs == {s_Kim, s_Lee, s_constructor}

ConversationInputs ==
    { Conversation(s_conv_ \o NumberToString(ts), ts,
                   <<Message("ai", s_hi), Message("user", text), Message("ai", s_bye)>>,
                   FinalSummary(mood, s_cheer)) :
        ts \in 1..2, text \in {s_hi}, mood \in {s_joy, s_sad} }

CallSaveConversation(userName, conversation) ==
    LET before == getConversations(conversations, userName)
        r == saveConversation(conversations, userName, conversation)
    IN  /\ Len(before.items) < MaxConversations
        /\ conversations' = r.conversations
        /\ convCall' = ConvCall("saveConversation", userName, conversation,
                                 before, r.result, JsUndefined)
        /\ UNCHANGED nonConvVars

CallGetConversations(userName) ==
    /\ convCall' = ConvCall("getConversations", userName, NoConversation,
                             JsUndefined, Returned(Null),
                             getConversations(conversations, userName))
    /\ UNCHANGED <<conversations, nonConvVars>>

ConversationInit == StoreInit /\ HistoryInit

ConversationNext ==
    \/ \E userName \in ConversationNameInputs,
            conversation \in ConversationInputs :
          CallSaveConversation(userName, conversation)
    \/ \E userName \in ConversationNameInputs :
          CallGetConversations(userName)

ConversationSpec == ConversationInit /\ [][ConversationNext]_vars

\* ------------------------------------------------------------ GatewaySpec
ApiKeyInputs == {s_key, s_key2, <<>>}

\* transcripts handed to the chat and summary functions
HistoryInputs ==
    { <<Message("ai", s_hi), Message("user", s_hi)>>,
      <<Message("ai", s_hi), Message("user", s_hi), Message("ai", s_question),
        Message("user", s_sad)>> }

MoodInputs == {s_joy, s_sad}

\* answers of the provider to a chat request
ChatOutcomes == {ProviderText(s_question_padded), ProviderNoText, ProviderError}

\* answers of the provider to the closing request
CloseOutcomes == {ProviderText(s_bye_padded), ProviderNoText, ProviderError}

\* answers of the provider to a summary request
SummaryOutcomes ==
    {ProviderJson(FinalSummary(mood, s_cheer)) : mood \in MoodInputs}
        \cup {ProviderNoText, ProviderError}

\* answers of the provider to a classification request
ClassifyOutcomes ==
    {ProviderText(text) :
        text \in {s_YELLOW, s_RED, s_BLUE, s_GREEN, s_red_padded, s_calm, <<>>}}
        \cup {ProviderNoText, ProviderError}

CallSaveApiKey(apiKey) ==
    /\ apiKeyItem' = saveApiKey(apiKey)
    /\ gatewayCall' = GatewayCall("saveApiKey", apiKey, ProviderError,
                                   Returned(<<>>), FALSE)
    /\ UNCHANGED nonGatewayVars

CallDeleteApiKey ==
    /\ apiKeyItem' = deleteApiKey
    /\ gatewayCall' = GatewayCall("deleteApiKey", <<>>, ProviderError,
                                   Returned(<<>>), FALSE)
    /\ UNCHANGED nonGatewayVars

CallGetChatResponse(history, outcome) ==
    LET r == getChatResponse(apiKeyItem, history, outcome)
    IN  /\ apiKeyItem' = getApiKey(apiKeyItem).item
        /\ gatewayCall' = GatewayCall("getChatResponse", history, outcome,
                                       r.result, r.sent)
        /\ UNCHANGED nonGatewayVars

CallGetFinalChatResponse(history, outcome) ==
    LET r == getFinalChatResponse(apiKeyItem, history, outcome)
    IN  /\ apiKeyItem' = getApiKey(apiKeyItem).item
        /\ gatewayCall' = GatewayCall("getFinalChatResponse", history, outcome,
                                       r.result, r.sent)
        /\ UNCHANGED nonGatewayVars

CallGetFinalSummary(history, outcome) ==
    LET r == getFinalSummary(apiKeyItem, history, outcome)
    IN  /\ apiKeyItem' = getApiKey(apiKeyItem).item
        /\ gatewayCall' = GatewayCall("getFinalSummary", history, outcome,
                                       r.result, r.sent)
        /\ UNCHANGED nonGatewayVars

CallGetMoodMeterQuadrant(mood, outcome) ==
    LET r == getMoodMeterQuadrant(apiKeyItem, mood, outcome)
    IN  /\ apiKeyItem' = getApiKey(apiKeyItem).item
        /\ gatewayCall' = GatewayCall("getMoodMeterQuadrant", mood, outcome,
                                       r.result, r.sent)
        /\ UNCHANGED nonGatewayVars

GatewayInit == StoreInit /\ HistoryInit

GatewayNext ==
    \/ \E apiKey \in ApiKeyInputs : CallSaveApiKey(apiKey)
    \/ CallDeleteApiKey
    \/ \E history \in HistoryInputs, outcome \in ChatOutcomes :
          CallGetChatResponse(history, outcome)
    \/ \E history \in HistoryInputs, outcome \in CloseOutcomes :
          CallGetFinalChatResponse(history, outcome)
    \/ \E history \in HistoryInputs, outcome \in SummaryOutcomes :
          CallGetFinalSummary(history, outcome)
    \/ \E mood \in MoodInputs, outcome \in ClassifyOutcomes :
          CallGetMoodMeterQuadrant(mood, outcome)

GatewaySpec == GatewayInit /\ [][GatewayNext]_vars

\* ------------------------------------------------------------ Spec: the application
\* bounds of the application's runs
MaxRetries == 1
MaxStored == 1

\* what the student types as a name and a password
StudentNameInputs == {s_Kim, s_constructor, <<32>>}
StudentPasswordInputs == {s_1234, s_slashO00}
\* what the student types in the chat
ChatInputs == {s_hi, <<32>>}
\* what Date.now() returns
Times == 1..2
\* what the teacher types as passwords
TeacherPasswordInputs == {s_0000, s_1234, s_slashO00}
\* what the teacher types as passwords in the runs of AppSpec
AppTeacherPasswordInputs == {s_0000, s_1234}
\* what is typed as an API key
UiApiKeyInputs == {s_key, <<32>>}

TotalStored ==
    LET RECURSIVE Sum(_)
        Sum(S) == IF S = {} THEN 0
                  ELSE LET k == CHOOSE x \in S : TRUE
                       IN  Len(conversations[k]) + Sum(S \ {k})
    IN  Sum(DOMAIN conversations)

\* the user messages of the chat that received no reply (failed calls)
Unanswered(c) ==
    Len(c.messages) - 1 - 2 * c.turnCount
        - (IF c.pending.op \in {"continue", "close"} THEN 1 ELSE 0)

\* ---- App
\* App is mounted (the page is loaded or reloaded): every component's state
\* is initialised again, and calls in flight are lost with the page
AppLoad ==
    /\ app' = App("landing", getApiKey(apiKeyItem).key # <<>>)
    /\ apiKeyItem' = getApiKey(apiKeyItem).item
    /\ student' = Student(NoUser, "dashboard")
    /\ chat' = NoChat
    /\ teacher' = Teacher(FALSE, "dashboard")
    /\ dash' = NoDash
    /\ UNCHANGED <<users, currentUserItem, conversations, teacherPasswordItem, callVars>>

\* ApiKeyModal.handleTestAndSave, with testApiKey's answer and the timer that
\* reports the saved key taken in the same step
HandleTestAndSave(apiKeyInput, isValid) ==
    /\ app.view = "landing"
    /\ trim(apiKeyInput) # <<>>
    /\ IF isValid
       THEN /\ apiKeyItem' = saveApiKey(apiKeyInput)
            /\ app' = App(app.view, TRUE)
       ELSE UNCHANGED <<apiKeyItem, app>>
    /\ UNCHANGED <<users, currentUserItem, conversations, teacherPasswordItem,
                   student, chat, teacher, dash, callVars>>

\* LandingPage: the student button (disabled without an API key);
\* StudentView mounts and reads the session
SetViewStudent ==
    /\ app.view = "landing"
    /\ app.isApiKeySet
    /\ app' = App("student", app.isApiKeySet)
    /\ student' = Student(getCurrentUser(currentUserItem), "dashboard")
    /\ UNCHANGED <<apiKeyItem, users, currentUserItem, conversations,
                   teacherPasswordItem, chat, teacher, dash, callVars>>

\* LandingPage: the teacher button; TeacherView mounts, not logged in
SetViewTeacher ==
    /\ app.view = "landing"
    /\ app.isApiKeySet
    /\ app' = App("teacher", app.isApiKeySet)
    /\ teacher' = Teacher(FALSE, "dashboard")
    /\ UNCHANGED <<apiKeyItem, users, currentUserItem, conversations,
                   teacherPasswordItem, student, chat, dash, callVars>>

\* goHome: offered by StudentView without a current user and by TeacherView
\* before the teacher login
GoHome ==
    /\ \/ app.view = "student" /\ student.currentUser = NoUser
       \/ app.view = "teacher" /\ ~teacher.isLoggedIn
    /\ app' = App("landing", app.isApiKeySet)
    /\ student' = Student(NoUser, "dashboard")
    /\ teacher' = Teacher(FALSE, "dashboard")
    /\ UNCHANGED <<apiKeyItem, users, currentUserItem, conversations,
                   teacherPasswordItem, chat, dash, callVars>>

\* ---- StudentView
\* AuthForm.handleSubmit
AuthFormSubmit(isLogin, name, password) ==
    /\ app.view = "student"
    /\ student.currentUser = NoUser
    /\ IF trim(name) = <<>> \/ ~validatePassword(password)
       THEN UNCHANGED <<users, currentUserItem, student>>
       ELSE IF isLogin
       THEN LET r == loginUser(users, currentUserItem, name, password)
            IN  /\ currentUserItem' = r.currentUser
                /\ student' = IF r.result.ok
                               THEN Student(r.result.value, student.studentView)
                               ELSE student
                /\ UNCHANGED users
       ELSE LET r == signupUser(users, name, password)
            IN  /\ Len(users) < MaxUsers \/ NameTaken(users, name)
                /\ users' = r.users
                /\ student' = IF r.result.ok
                               THEN Student(r.result.value, student.studentView)
                               ELSE student
                /\ UNCHANGED currentUserItem
    /\ UNCHANGED <<apiKeyItem, conversations, teacherPasswordItem, app, chat,
                   teacher, dash, callVars>>

\* StudentView.handleLogout (the student dashboard's button)
HandleLogout ==
    /\ app.view = "student"
    /\ student.currentUser # NoUser
    /\ student.studentView = "dashboard"
    /\ currentUserItem' = logoutUser(currentUserItem)
    /\ student' = Student(NoUser, student.studentView)
    /\ UNCHANGED <<apiKeyItem, users, conversations, teacherPasswordItem, app,
                   chat, teacher, dash, callVars>>

\* "start a new conversation": ChatView mounts and its effect sets the greeting
StartChat ==
    /\ app.view = "student"
    /\ student.currentUser # NoUser
    /\ student.studentView = "dashboard"
    /\ TotalStored < MaxStored
    /\ student' = Student(student.currentUser, "chat")
    /\ chat' = [NoChat EXCEPT !.messages = <<Greeting(student.currentUser.name)>>]
    /\ UNCHANGED <<apiKeyItem, users, currentUserItem, conversations,
                   teacherPasswordItem, app, teacher, dash, callVars>>

\* "previous conversations": HistoryView mounts and its effect sorts what
\* getConversations returns; a value without a sort method throws in the
\* effect, which unmounts the application
OpenHistory ==
    /\ app.view = "student"
    /\ student.currentUser # NoUser
    /\ student.studentView = "dashboard"
    /\ IF getConversations(conversations, student.currentUser.name).kind = "array"
       THEN /\ student' = Student(student.currentUser, "history")
            /\ app' = app
       ELSE /\ student' = Student(NoUser, "dashboard")
            /\ app' = App("crashed", app.isApiKeySet)
    /\ UNCHANGED <<apiKeyItem, users, currentUserItem, conversations,
                   teacherPasswordItem, chat, teacher, dash, callVars>>

\* HistoryView: back to the student dashboard
HistoryBack ==
    /\ app.view = "student"
    /\ student.studentView = "history"
    /\ student' = Student(student.currentUser, "dashboard")
    /\ UNCHANGED <<apiKeyItem, users, currentUserItem, conversations,
                   teacherPasswordItem, app, chat, teacher, dash, callVars>>

\* ---- ChatView
\* answers of the provider in the application's runs
ReplyOutcomes == {ProviderText(s_question_padded), ProviderNoText, ProviderError}
ClosingOutcomes == {ProviderText(s_bye_padded), ProviderNoText, ProviderError}
SummarizeOutcomes ==
    {ProviderJson(FinalSummary(mood, s_cheer)) : mood \in MoodInputs}
        \cup {ProviderNoText, ProviderError}
ClassificationOutcomes ==
    {ProviderText(s_red_padded), ProviderText(s_GREEN), ProviderText(s_calm),
     ProviderError}

SendAcceptedWhileTyping(c, userInput) ==
    ~(trim(userInput) = <<>> \/ c.isConversationOver)

SendAcceptedWhenOver(c, userInput) ==
    ~(trim(userInput) = <<>> \/ c.isAITyping)

\* handleSendMessage's guard: the input is sent unless it is blank, a call
\* is pending or the conversation is over
SendAccepted(c, userInput) ==
    ~(trim(userInput) = <<>> \/ c.isAITyping \/ c.isConversationOver)

CloseOneTurnLate(newTurnCount) ==
    IF newTurnCount > MAX_TURNS THEN "close" ELSE "continue"

\* the call made for the turn that would bring the counter to newTurnCount
OperationFor(newTurnCount) ==
    IF newTurnCount = MAX_TURNS THEN "close" ELSE "continue"

ReachedMaxTurnsEarly(newTurnCount) == newTurnCount >= MAX_TURNS - 1

\* whether the reply just received ends the conversation
ReachedMaxTurns(newTurnCount) == newTurnCount >= MAX_TURNS

ReplyFailedAdvancing(c, error) ==
    [c EXCEPT !.error = error, !.isAITyping = FALSE, !.pending = NoPending,
              !.turnCount = @ + 1]

\* the catch and finally blocks of handleSendMessage
ReplyFailed(c, error) ==
    [c EXCEPT !.error = error, !.isAITyping = FALSE, !.pending = NoPending]

\* handleSendMessage up to its first await: the guard, the user's message
\* appended to the messages shown, and the call chosen by the turn number
HandleSendMessage(userInput) ==
    /\ app.view = "student"
    /\ student.studentView = "chat"
    /\ chat.finalSummary = NoSummary
    /\ SendAccepted(chat, userInput)
    /\ LET newHistory == Append(chat.messages, Message("user", userInput))
           newTurnCount == chat.turnCount + 1
       IN  chat' = [chat EXCEPT
                      !.error = NoError,
                      !.messages = newHistory,
                      !.isAITyping = TRUE,
                      !.pending = Pending(OperationFor(newTurnCount),
                                          newHistory, newTurnCount)]
    /\ UNCHANGED <<apiKeyItem, users, currentUserItem, conversations,
                   teacherPasswordItem, app, student, teacher, dash, callVars>>

\* handleSendMessage from the answer of getChatResponse or
\* getFinalChatResponse to its next await, or to its end
ResolveReply(outcome) ==
    /\ chat.pending.op \in {"continue", "close"}
    /\ outcome \in (IF chat.pending.op = "close" THEN ClosingOutcomes ELSE ReplyOutcomes)
    /\ LET newHistory == chat.pending.history
           newTurnCount == chat.pending.newTurnCount
           r == IF chat.pending.op = "close"
                THEN getFinalChatResponse(apiKeyItem, newHistory, outcome)
                ELSE getChatResponse(apiKeyItem, newHistory, outcome)
           finalHistory == Append(newHistory, Message("ai", r.result.value))
       IN  /\ IF r.result.ok
              THEN chat' = [chat EXCEPT
                              !.messages = finalHistory,
                              !.turnCount = newTurnCount,
                              !.isConversationOver =
                                  IF ReachedMaxTurns(newTurnCount) THEN TRUE ELSE @,
                              !.isAITyping = ReachedMaxTurns(newTurnCount),
                              !.pending = IF ReachedMaxTurns(newTurnCount)
                                          THEN Pending("summarize", finalHistory,
                                                       newTurnCount)
                                          ELSE NoPending]
              ELSE /\ Unanswered(chat) < MaxRetries
                   /\ chat' = ReplyFailed(chat, r.result.error)
           /\ gatewayCall' = GatewayCall(chat.pending.op, <<>>, outcome,
                                         r.result, r.sent)
    /\ UNCHANGED <<apiKeyItem, users, currentUserItem, conversations,
                   teacherPasswordItem, app, student, teacher, dash,
                   lastCall, convCall, signupPassword, resetNames>>

\* handleSendMessage from the answer of getFinalSummary to its end; idNow
\* and now are what the two calls of Date.now() return (the same
\* millisecond in the runs of StudentSpec; the id is read nowhere)
ResolveSummary(outcome, idNow, now) ==
    /\ chat.pending.op = "summarize"
    /\ LET finalHistory == chat.pending.history
           r == getFinalSummary(apiKeyItem, finalHistory, outcome)
           saved == saveConversation(conversations, student.currentUser.name,
                        Conversation(s_conv_ \o NumberToString(idNow), now,
                                     finalHistory, r.result.value))
       IN  /\ IF r.result.ok
              THEN /\ conversations' = saved.conversations
                   /\ chat' = [chat EXCEPT
                                  !.finalSummary = r.result.value,
                                  !.error = IF saved.result.ok THEN @
                                            ELSE saved.result.error,
                                  !.isAITyping = FALSE,
                                  !.pending = NoPending]
              ELSE /\ chat' = ReplyFailed(chat, r.result.error)
                   /\ UNCHANGED conversations
           /\ gatewayCall' = GatewayCall("summarize", <<>>, outcome,
                                         [r.result EXCEPT !.value = <<>>], r.sent)
    /\ UNCHANGED <<apiKeyItem, users, currentUserItem, teacherPasswordItem,
                   app, student, teacher, dash,
                   lastCall, convCall, signupPassword, resetNames>>

\* the button shown with the final summary: back to the student dashboard
OnConversationEnd ==
    /\ app.view = "student"
    /\ student.studentView = "chat"
    /\ chat.finalSummary # NoSummary
    /\ student' = Student(student.currentUser, "dashboard")
    /\ chat' = NoChat
    /\ UNCHANGED <<apiKeyItem, users, currentUserItem, conversations,
                   teacherPasswordItem, app, teacher, dash, callVars>>

\* ---- TeacherView
\* MoodMeterDashboard is mounted and fetchMoods runs to its await: the
\* newest mood of every student is read and one classification call is made
\* for each. With nothing to classify Promise.all resolves at once; with no
\* API key every call throws and fetchMoods stops
MountDashboard ==
    LET latestMoods == LatestMoods(conversations)
    IN  IF DOMAIN latestMoods = {}
        THEN [NoDash EXCEPT !.isLoading = FALSE]
        ELSE IF ~getAI(apiKeyItem)
        THEN [NoDash EXCEPT !.latestMoods = latestMoods, !.rejected = TRUE]
        ELSE [NoDash EXCEPT !.latestMoods = latestMoods,
                            !.awaiting = DOMAIN latestMoods]

TeacherPagesAlwaysShown == app.view = "teacher"

\* TeacherView renders its pages (dashboard, student management, settings,
\* and the navigation) only when isLoggedIn; the login form otherwise
TeacherPagesShown == app.view = "teacher" /\ teacher.isLoggedIn

\* TeacherLogin.handleLogin
TeacherHandleLogin(password) ==
    /\ app.view = "teacher"
    /\ ~teacher.isLoggedIn
    /\ LET v == verifyTeacherPassword(teacherPasswordItem, password)
       IN  /\ teacherPasswordItem' = v.item
           /\ teacher' = Teacher(v.ok, teacher.teacherView)
           /\ dash' = IF v.ok /\ teacher.teacherView = "dashboard"
                      THEN MountDashboard ELSE dash
           /\ lastCall' = Call("verifyTeacherPassword", <<>>, password,
                                IF v.ok THEN Returned(NoUser) ELSE Threw(NoError))
    /\ UNCHANGED <<apiKeyItem, users, currentUserItem, conversations, app,
                   student, chat, convCall, gatewayCall, signupPassword,
                   resetNames>>

\* the navigation buttons of TeacherView
SetTeacherView(view) ==
    /\ TeacherPagesShown
    /\ view # teacher.teacherView
    /\ teacher' = Teacher(teacher.isLoggedIn, view)
    /\ dash' = IF view = "dashboard" THEN MountDashboard ELSE NoDash
    /\ UNCHANGED <<apiKeyItem, users, currentUserItem, conversations,
                   teacherPasswordItem, app, student, chat, callVars>>

\* the logout button of TeacherView
TeacherLogout ==
    /\ TeacherPagesShown
    /\ teacher' = Teacher(FALSE, teacher.teacherView)
    /\ dash' = NoDash
    /\ UNCHANGED <<apiKeyItem, users, currentUserItem, conversations,
                   teacherPasswordItem, app, student, chat, callVars>>

\* one classification call of fetchMoods answers (the API key was read when
\* the call was made, at the mount); when it is the last one, Promise.all
\* resolves and the moods are published
ResolveClassification(name, outcome) ==
    /\ name \in dash.awaiting
    /\ LET latest == dash.latestMoods[name]
           quadrant == QuadrantAwaited(latest.mood, outcome)
           moodData == [k \in DOMAIN dash.moodData \cup {name} |->
                           IF k = name THEN quadrant ELSE dash.moodData[k]]
           awaiting == dash.awaiting \ {name}
       IN  dash' = [dash EXCEPT
                      !.moodData = moodData,
                      !.awaiting = awaiting,
                      !.studentMoods =
                          IF awaiting = {}
                          THEN {StudentMood(k, dash.latestMoods[k].mood, moodData[k],
                                            dash.latestMoods[k].timestamp) :
                                   k \in DOMAIN moodData}
                          ELSE @,
                      !.isLoading = IF awaiting = {} THEN FALSE ELSE @]
    /\ UNCHANGED <<apiKeyItem, users, currentUserItem, conversations,
                   teacherPasswordItem, app, student, chat, teacher, callVars>>

\* StudentManagement.handleResetPassword, offered for every stored student
HandleResetPassword(studentName) ==
    /\ TeacherPagesShown
    /\ teacher.teacherView = "manage"
    /\ \E i \in 1..Len(users) : users[i].name = studentName
    /\ users' = resetStudentPassword(users, studentName)
    /\ UNCHANGED <<apiKeyItem, currentUserItem, conversations,
                   teacherPasswordItem, app, student, chat, teacher, dash,
                   callVars>>

\* TeacherSettings.handleChangePassword
HandleChangePassword(oldPassword, newPassword) ==
    /\ TeacherPagesShown
    /\ teacher.teacherView = "settings"
    /\ teacherPasswordItem' =
          IF validateNewTeacherPassword(newPassword)
          THEN changeTeacherPassword(teacherPasswordItem, oldPassword,
                                     newPassword).item
          ELSE teacherPasswordItem
    /\ UNCHANGED <<apiKeyItem, users, currentUserItem, conversations, app,
                   student, chat, teacher, dash, callVars>>

\* ---- StudentSpec: the application as a student drives it
StudentInit == StoreInit /\ HistoryInit

StudentNext ==
    \/ AppLoad
    \/ \E apiKeyInput \in UiApiKeyInputs, isValid \in BOOLEAN :
          HandleTestAndSave(apiKeyInput, isValid)
    \/ SetViewStudent
    \/ GoHome
    \/ \E isLogin \in BOOLEAN, name \in StudentNameInputs,
            password \in StudentPasswordInputs :
          AuthFormSubmit(isLogin, name, password)
    \/ HandleLogout
    \/ StartChat
    \/ OpenHistory
    \/ HistoryBack
    \/ \E userInput \in ChatInputs : HandleSendMessage(userInput)
    \/ \E outcome \in ReplyOutcomes \cup ClosingOutcomes : ResolveReply(outcome)
    \/ \E outcome \in SummarizeOutcomes, now \in Times :
          ResolveSummary(outcome, now, now)
    \/ OnConversationEnd

StudentSpec == StudentInit /\ [][StudentNext]_vars

\* ---- TeacherSpec: the application as the teacher drives it, on the stores
\* the students left
\* a transcript as a completed chat stores it: the greeting and MAX_TURNS
\* pairs of a user message and a reply, the last reply being the closing one
RECURSIVE CompletedMessages(_, _)
CompletedMessages(name, turns) ==
    IF turns = 0 THEN <<Greeting(name)>>
    ELSE CompletedMessages(name, turns - 1)
            \o <<Message("user", s_hi),
                 Message("ai", IF turns = MAX_TURNS THEN s_bye ELSE s_question)>>

StoredConversations(name) ==
    { Conversation(s_conv_ \o NumberToString(ts), ts,
                   CompletedMessages(name, MAX_TURNS), FinalSummary(mood, s_cheer)) :
        ts \in Times, mood \in MoodInputs }

RECURSIVE ListsUpTo(_, _)
ListsUpTo(S, n) ==
    IF n = 0 THEN {<<>>}
    ELSE ListsUpTo(S, n - 1)
            \cup {Append(l, x) : l \in {m \in ListsUpTo(S, n - 1) : Len(m) = n - 1},
                                  x \in S}

\* the students who signed up, in the order they did
TeacherSpecUsers == <<User(s_Kim, simpleHash(s_1234)), User(s_Lee, simpleHash(s_1234))>>

\* the conversation stores these students can have left: a key for every
\* student who completed a chat, with the conversations saved under it; the
\* first student completed up to MaxConversations chats, the second at most
\* one
StoreOf(kimConvos, leeConvos) ==
    [n \in {k \in {s_Kim, s_Lee} :
                (IF k = s_Kim THEN kimConvos ELSE leeConvos) # <<>>} |->
        IF n = s_Kim THEN kimConvos ELSE leeConvos]

TeacherSpecStores(maxConversations) ==
    { StoreOf(kimConvos, leeConvos) :
        kimConvos \in ListsUpTo(StoredConversations(s_Kim), maxConversations),
        leeConvos \in ListsUpTo(StoredConversations(s_Lee), 1) }

TeacherInit ==
    /\ apiKeyItem \in {NoItem, saveApiKey(s_key)}
    /\ teacherPasswordItem = NoItem
    /\ app = App("landing", FALSE)
    /\ student = Student(NoUser, "dashboard")
    /\ chat = NoChat
    /\ teacher = Teacher(FALSE, "dashboard")
    /\ dash = NoDash
    /\ users = TeacherSpecUsers
    /\ currentUserItem = NoUser
    /\ conversations \in TeacherSpecStores(MaxConversations)
    /\ HistoryInit

TeacherNext ==
    \/ AppLoad
    \/ \E apiKeyInput \in UiApiKeyInputs, isValid \in BOOLEAN :
          HandleTestAndSave(apiKeyInput, isValid)
    \/ SetViewTeacher
    \/ GoHome
    \/ \E password \in TeacherPasswordInputs : TeacherHandleLogin(password)
    \/ \E view \in {"dashboard", "manage", "settings"} : SetTeacherView(view)
    \/ TeacherLogout
    \/ \E name \in StudentNameInputs \cup {s_Lee},
            outcome \in ClassificationOutcomes :
          ResolveClassification(name, outcome)
    \/ \E studentName \in StudentNameInputs \cup {s_Lee} :
          HandleResetPassword(studentName)
    \/ \E oldPassword \in TeacherPasswordInputs,
            newPassword \in TeacherPasswordInputs :
          HandleChangePassword(oldPassword, newPassword)

TeacherSpec == TeacherInit /\ [][TeacherNext]_vars

\* ---- AppSpec: the application as students and the teacher drive it in
\* turn, from empty storage
AppInit == StoreInit /\ HistoryInit

AppNext ==
    \/ AppLoad
    \/ \E apiKeyInput \in UiApiKeyInputs, isValid \in BOOLEAN :
          HandleTestAndSave(apiKeyInput, isValid)
    \/ SetViewStudent
    \/ SetViewTeacher
    \/ GoHome
    \/ \E isLogin \in BOOLEAN, name \in StudentNameInputs,
            password \in StudentPasswordInputs :
          AuthFormSubmit(isLogin, name, password)
    \/ HandleLogout
    \/ StartChat
    \/ OpenHistory
    \/ HistoryBack
    \/ \E userInput \in ChatInputs : HandleSendMessage(userInput)
    \/ \E outcome \in ReplyOutcomes \cup ClosingOutcomes : ResolveReply(outcome)
    \/ \E outcome \in SummarizeOutcomes, now \in Times :
          ResolveSummary(outcome, now, now)
    \/ OnConversationEnd
    \/ \E password \in AppTeacherPasswordInputs : TeacherHandleLogin(password)
    \/ \E view \in {"dashboard", "manage", "settings"} : SetTeacherView(view)
    \/ TeacherLogout
    \/ \E name \in StudentNameInputs, outcome \in ClassificationOutcomes :
          ResolveClassification(name, outcome)
    \/ \E studentName \in StudentNameInputs : HandleResetPassword(studentName)
    \/ \E oldPassword \in AppTeacherPasswordInputs,
            newPassword \in AppTeacherPasswordInputs :
          HandleChangePassword(oldPassword, newPassword)

AppSpec == AppInit /\ [][AppNext]_vars

\* ---- DashboardSpec: TeacherSpec in a browser whose stored API key can be
\* removed while the application runs (deleteApiKey: the removeItem that
\* getApiKey runs on an item it cannot decode, and that clearing the site's
\* storage amounts to)
DashboardInit == TeacherInit

DashboardNext ==
    \/ CallDeleteApiKey
    \/ AppLoad
    \/ \E apiKeyInput \in UiApiKeyInputs, isValid \in BOOLEAN :
          HandleTestAndSave(apiKeyInput, isValid)
    \/ SetViewTeacher
    \/ GoHome
    \/ \E password \in TeacherPasswordInputs : TeacherHandleLogin(password)
    \/ \E view \in {"dashboard", "manage", "settings"} : SetTeacherView(view)
    \/ TeacherLogout
    \/ \E name \in StudentNameInputs \cup {s_Lee},
            outcome \in ClassificationOutcomes :
          ResolveClassification(name, outcome)
    \/ \E studentName \in StudentNameInputs \cup {s_Lee} :
          HandleResetPassword(studentName)
    \/ \E oldPassword \in TeacherPasswordInputs,
            newPassword \in TeacherPasswordInputs :
          HandleChangePassword(oldPassword, newPassword)

DashboardSpec == DashboardInit /\ [][DashboardNext]_vars

\* ------------------------------------------------------------ TeacherCredentialSpec
\* the exported teacher-credential functions, called in any order
s_5678 == <<53, 54, 55, 56>>
CredentialPasswordInputs == {s_0000, s_1234, s_slashO00, s_5678, <<>>}

CallVerifyTeacherPassword(password) ==
    LET v == verifyTeacherPassword(teacherPasswordItem, password)
    IN  /\ teacherPasswordItem' = v.item
        /\ lastCall' = Call("verifyTeacherPassword", <<>>, password,
                             IF v.ok THEN Returned(NoUser) ELSE Threw(NoError))
        /\ UNCHANGED <<users, currentUserItem, signupPassword, resetNames,
                       convVars, gatewayVars, app, student, chat, teacher, dash>>

CallChangeTeacherPassword(oldPassword, newPassword) ==
    LET r == changeTeacherPassword(teacherPasswordItem, oldPassword, newPassword)
    IN  /\ teacherPasswordItem' = r.item
        /\ lastCall' = Call("changeTeacherPassword", oldPassword, newPassword,
                             IF r.result.ok THEN Returned(NoUser) ELSE r.result)
        /\ UNCHANGED <<users, currentUserItem, signupPassword, resetNames,
                       convVars, gatewayVars, app, student, chat, teacher, dash>>

TeacherCredentialInit == StoreInit /\ HistoryInit

TeacherCredentialNext ==
    \/ \E password \in CredentialPasswordInputs : CallVerifyTeacherPassword(password)
    \/ \E oldPassword \in CredentialPasswordInputs,
            newPassword \in CredentialPasswordInputs :
          CallChangeTeacherPassword(oldPassword, newPassword)

TeacherCredentialSpec == TeacherCredentialInit /\ [][TeacherCredentialNext]_vars

\* ------------------------------------------------------------ HashSpec
\* simpleHash applied to the passwords the student form accepts and to
\* strings long enough for the 32-bit wrap, and one sign-up followed by one
\* login attempt with any four-digit password.

\* the strings validatePassword accepts: /^\d{4}$/
FourDigitPasswords ==
    {<<a, b, c, d>> : a \in 48..57, b \in 48..57, c \in 48..57, d \in 48..57}

s_9999 == <<57, 57, 57, 57>>
s_0031 == <<48, 48, 51, 49>>
\* the passwords accounts are created with in HashSpec
SignupPasswordInputs == {s_0000, s_1234, s_0031, s_9999}

s_annyeong == <<50504, 45397, 54616, 49464, 50836>>
s_maxUnits == <<65535, 65535, 65535, 65535, 65535, 65535, 65535>>
\* strings whose hash leaves the range of 32 bits on the way, or is "0"
LongHashInputs == {<<>>, s_annyeong, s_maxUnits, s_constructor, s_Kim \o s_1234}

HashInputs == FourDigitPasswords \cup LongHashInputs

\* one call of simpleHash, the first call of a run
CallSimpleHash(s) ==
    /\ lastCall.op = "none"
    /\ lastCall' = Call("simpleHash", <<>>, s, Returned(simpleHash(s)))
    /\ UNCHANGED <<users, currentUserItem, signupPassword, resetNames,
                   nonAccountVars>>

\* signupUser on the empty store
HashSignup(name, password) ==
    /\ lastCall.op = "none"
    /\ CallSignupUser(name, password)

\* loginUser right after the sign-up
HashLogin(name, password) ==
    /\ lastCall.op = "signupUser"
    /\ CallLoginUser(name, password)

HashInit == StoreInit /\ HistoryInit

HashNext ==
    \/ \E s \in HashInputs : CallSimpleHash(s)
    \/ \E password \in SignupPasswordInputs : HashSignup(s_Kim, password)
    \/ \E password \in FourDigitPasswords : HashLogin(s_Kim, password)

HashSpec == HashInit /\ [][HashNext]_vars

\* ============================================================ claims
\* equality of names up to letter case, stated apart from the code's test
EqualIgnoringCase(a, b) == MapCodes(a, LowerCode) = MapCodes(b, LowerCode)

\* the index of the first stored account matching a name up to case, or 0
FirstMatch(name) ==
    LET hits == {i \in 1..Len(users) : EqualIgnoringCase(users[i].name, name)}
    IN  IF hits = {} THEN 0 ELSE CHOOSE i \in hits : \A j \in hits : i <= j

\* C1: once signupUser(name, password) has succeeded and the account has not
\* been reset, every loginUser(name', password) with name' equal to name up to
\* case succeeds and returns the Account with the name exactly as signed up,
\* whatever signups, logins and logouts came in between.
C1_LoginAfterSignup ==
    [][\A sp \in signupPassword :
         ( /\ lastCall'.op = "loginUser"
           /\ sp[1] \notin resetNames
           /\ EqualIgnoringCase(lastCall'.name, sp[1])
           /\ lastCall'.password = sp[2] )
         => ( /\ lastCall'.result.ok
              /\ lastCall'.result.value.name = sp[1]
              /\ currentUserItem'.name = sp[1] )]_vars

\* C1 witness: a login under another casing of a signed-up name succeeded
\* after a further signup, and returned the name as stored.
C1_Witness ==
    /\ lastCall.op = "loginUser"
    /\ lastCall.result.ok
    /\ Len(users) = 2
    /\ lastCall.name # lastCall.result.value.name
    /\ <<lastCall.result.value.name, lastCall.password>> \in signupPassword
    /\ lastCall.result.value.name \notin resetNames

C2_Unique ==
    \A i, j \in 1..Len(users) :
        i # j => ~EqualIgnoringCase(users[i].name, users[j].name)

C2_DuplicateStep ==
    ( /\ lastCall'.op = "signupUser"
      /\ lastCall' # lastCall
      /\ FirstMatch(lastCall'.name) # 0 )
    => ( /\ lastCall'.result = Threw(DuplicateName)
         /\ users' = users )

\* C2: signupUser with a name equal up to case to a stored Account's name
\* throws DuplicateName and leaves the Account store unchanged; no two stored
\* Accounts ever have names equal up to case.
C2_DuplicateNameRejected == []C2_Unique /\ [][C2_DuplicateStep]_vars

\* C2 witness: a signup was refused for a name that differs from the stored
\* one only in case.
C2_Witness ==
    /\ lastCall.op = "signupUser"
    /\ lastCall.result = Threw(DuplicateName)
    /\ FindIndexExact(users, lastCall.name) = 0
    /\ FirstMatch(lastCall.name) # 0

\* what loginUser would answer now, for a name and a password
LoginNow(name, password) ==
    loginUser(users, currentUserItem, name, password).result

\* C7 as claimed: after resetStudentPassword on an account's stored name,
\* loginUser with "0000" succeeds and loginUser with the password the account
\* was created with fails with InvalidCredentials.
C7_ResetThenOldPasswordFails ==
    \A sp \in signupPassword :
        sp[1] \in resetNames =>
            /\ LoginNow(sp[1], s_0000).ok
            /\ LoginNow(sp[1], sp[2]) = Threw(InvalidCredentials)

\* C7 amended: after the reset, loginUser with "0000" succeeds; loginUser with
\* the old password fails with InvalidCredentials unless the old password
\* hashes to the same value as "0000" (it is "0000", or collides with it), in
\* which case it succeeds.
C7_ResetThenLogin ==
    \A sp \in signupPassword :
        sp[1] \in resetNames =>
            /\ LoginNow(sp[1], s_0000).ok
            /\ LoginNow(sp[1], s_0000).value.name = sp[1]
            /\ HashUpTo(sp[2], Len(sp[2])) # HashUpTo(s_0000, 4)
                   => LoginNow(sp[1], sp[2]) = Threw(InvalidCredentials)
            /\ HashUpTo(sp[2], Len(sp[2])) = HashUpTo(s_0000, 4)
                   => LoginNow(sp[1], sp[2]).ok

\* C7 witness: an account created with "1234" was reset, and a login with
\* "1234" was then refused.
C7_Witness ==
    /\ lastCall.op = "loginUser"
    /\ lastCall.password = s_1234
    /\ lastCall.name \in resetNames
    /\ <<lastCall.name, s_1234>> \in signupPassword
    /\ lastCall.result = Threw(InvalidCredentials)

C10_LoginStep ==
    lastCall'.op = "loginUser" =>
        LET i == FirstMatch(lastCall'.name)
            refused == \/ i = 0
                       \/ users[i].passwordHash # simpleHash(lastCall'.password)
        IN  /\ refused => /\ lastCall'.result = Threw(InvalidCredentials)
                           /\ currentUserItem' = currentUserItem
            /\ ~refused => /\ lastCall'.result = Returned(users[i])
                            /\ currentUserItem' = users[i]

\* the session store holds no Account, or one Account of a stored name
C10_AtMostOneSession ==
    \/ currentUserItem = NoUser
    \/ \E i \in 1..Len(users) : users[i].name = currentUserItem.name

\* C10: loginUser throws InvalidCredentials when no Account matches the name
\* up to case or the password hash differs, and then leaves the Session as it
\* was; otherwise the Session holds the matched Account, replacing any
\* previous one; the Session is always empty or one Account.
C10_LoginSession == []C10_AtMostOneSession /\ [][C10_LoginStep]_vars

\* C10 witness: a login was refused while another user was logged in, and
\* that user is still the current user.
C10_Witness ==
    /\ lastCall.op = "loginUser"
    /\ lastCall.result = Threw(InvalidCredentials)
    /\ currentUserItem # NoUser
    /\ ~EqualIgnoringCase(currentUserItem.name, lastCall.name)

\* C9 as claimed: after saveConversation(name, c), getConversations(name)
\* ends with c (same Messages, same FinalSummary mood and message), and the
\* Conversations stored earlier for that name precede it unchanged.
C9_RoundTrip ==
    convCall.op = "saveConversation" =>
        LET got == getConversations(conversations, convCall.userName)
            n == Len(got.items)
        IN  /\ got.kind = "array"
            /\ n >= 1
            /\ got.items[n].messages = convCall.conversation.messages
            /\ got.items[n].summary.mood = convCall.conversation.summary.mood
            /\ got.items[n].summary.message = convCall.conversation.summary.message
            /\ SubSeq(got.items, 1, n - 1) = convCall.before.items

\* The round trip of C9 for the names that are not property names of
\* Object.prototype.
C9_RoundTripOwnKeys ==
    (convCall.op = "saveConversation" /\ convCall.userName \notin ObjectPrototypeKeys)
        => C9_RoundTrip

\* the API key item holds a key
KeyPresent == apiKeyItem # NoItem /\ apiKeyItem # <<>>

\* what the code makes of the provider's classification text
NormalizedLabel(text) == MapCodes(trim(text), UpperCode)

CountFrom(messages, sender) ==
    Cardinality({i \in 1..Len(messages) : messages[i].sender = sender})

\* the exchanged turn-pairs of a transcript: a user message directly
\* followed by a reply
TurnPairs(messages) ==
    Cardinality({i \in 1..(Len(messages) - 1) :
                    /\ messages[i].sender = "user"
                    /\ messages[i + 1].sender = "ai"})

StoredConversationsOf(store) ==
    UNION {{store[k][i] : i \in 1..Len(store[k])} : k \in DOMAIN store}

C3_Stored ==
    /\ chat.turnCount <= MAX_TURNS
    /\ \A c \in StoredConversationsOf(conversations) :
          /\ TurnPairs(c.messages) = MAX_TURNS
          /\ CountFrom(c.messages, "ai") = MAX_TURNS + 1

C3_StoreStep ==
    conversations' # conversations =>
        /\ chat.turnCount = MAX_TURNS
        /\ chat'.turnCount = MAX_TURNS
        /\ chat.pending.op = "summarize"
        /\ TurnPairs(chat.messages) = MAX_TURNS
        /\ \E k \in DOMAIN conversations' :
              conversations'[k][Len(conversations'[k])].messages = chat.messages

\* C3: a Conversation is written to the store only in a step taken with the
\* turn counter at MAX_TURNS, after MAX_TURNS user inputs each received a
\* reply; the turn counter never exceeds MAX_TURNS; and every stored
\* Conversation holds exactly MAX_TURNS turn-pairs, whatever calls failed on
\* the way.
C3_PersistedOnlyAtMaxTurns == []C3_Stored /\ [][C3_StoreStep]_vars

\* a chat that had a failed call on the way has just been stored
C3_Witness ==
    /\ chat.finalSummary # NoSummary
    /\ chat.error = NoError
    /\ chat.turnCount = MAX_TURNS
    /\ CountFrom(chat.messages, "user") > MAX_TURNS
    /\ \E c \in StoredConversationsOf(conversations) : c.messages = chat.messages

\* ------------------------------------------------------------ C4
\* the chat after getFinalSummary failed: the closing reply was received,
\* no summary is shown, no call is pending, the error is shown
SummarizeFailed ==
    /\ student.studentView = "chat"
    /\ chat.turnCount = MAX_TURNS
    /\ chat.finalSummary = NoSummary
    /\ chat.pending = NoPending
    /\ chat.error = SummaryError

\* C4: after getFinalSummary failed the user can retry by sending again:
\* an input that is not blank is accepted.
C4_RetryAfterSummarizeFailure ==
    SummarizeFailed => \E userInput \in ChatInputs : SendAccepted(chat, userInput)

\* ------------------------------------------------------------ C5
\* a step in which getChatResponse or getFinalChatResponse fails
ReplyFailureStep ==
    /\ chat.pending.op \in {"continue", "close"}
    /\ chat'.error # NoError

C5_FailureStep ==
    ReplyFailureStep =>
        /\ chat'.turnCount = chat.turnCount
        /\ ~chat'.isConversationOver
        /\ conversations' = conversations
        /\ ~gatewayCall'.result.ok
        /\ gatewayCall'.op = chat.pending.op
        /\ chat'.error = gatewayCall'.result.error
        /\ \E userInput \in ChatInputs : SendAccepted(chat', userInput)

\* the input sent after a failed call starts a call of the kind that failed
C5_RetryStep ==
    (/\ chat.error \in {ChatResponseError, FinalChatResponseError}
     /\ chat.pending = NoPending
     /\ chat'.pending # NoPending) =>
        /\ chat'.pending.op = gatewayCall.op
        /\ chat'.pending.newTurnCount = chat.turnCount + 1

\* C5: when a continue or close call fails, the turn counter is not
\* advanced, the conversation is not marked over, nothing is written to the
\* conversation store and an input is accepted again; the input sent next
\* starts a call of the same kind as the one that failed.
C5_ReplyFailureRecoverable == [][C5_FailureStep /\ C5_RetryStep]_vars

\* the closing call failed and the user's next input is awaiting the
\* closing call again
C5_Witness ==
    /\ gatewayCall.op = "close"
    /\ ~gatewayCall.result.ok
    /\ chat.pending.op = "close"
    /\ chat.turnCount = MAX_TURNS - 1
    /\ Unanswered(chat) = 1

\* ------------------------------------------------------------ C8
\* the dashboard is shown with its buckets
DashboardShown ==
    /\ app.view = "teacher"
    /\ teacher.isLoggedIn
    /\ teacher.teacherView = "dashboard"
    /\ ~dash.isLoading

\* the students with at least one stored Conversation
StudentsWithConversation ==
    {n \in DOMAIN conversations : Len(conversations[n]) > 0}

\* the quadrants whose bucket has an entry for name
QuadrantsOf(name) ==
    {q \in Quadrants : \E m \in moodsByQuadrant(dash.studentMoods)[q] : m.name = name}

\* C8: when the dashboard is shown, every student with a stored
\* Conversation has one entry, in exactly one bucket, that of the quadrant
\* getMoodMeterQuadrant returned for the student; a student without a
\* Conversation has no entry; this in every order in which the calls answer.
C8_DashboardBuckets ==
    DashboardShown =>
        /\ \A name \in StudentsWithConversation :
              /\ name \in DOMAIN dash.moodData
              /\ QuadrantsOf(name) = {dash.moodData[name]}
              /\ Cardinality({m \in dash.studentMoods : m.name = name}) = 1
        /\ \A i \in 1..Len(users) :
              users[i].name \notin StudentsWithConversation
                  => QuadrantsOf(users[i].name) = {}
        /\ \A m \in dash.studentMoods : m.name \in StudentsWithConversation

\* two students were classified into different quadrants
C8_Witness ==
    /\ DashboardShown
    /\ QuadrantsOf(s_Kim) = {s_RED}
    /\ QuadrantsOf(s_Lee) = {s_GREEN}

\* ------------------------------------------------------------ C11
\* the kind, in the specification's taxonomy, of an error the code throws
KindOf(error) ==
    IF error = CurrentPasswordMismatch THEN InvalidCredentials ELSE error

\* the passwords that verify against the stored credential
Verifying(item) ==
    {pw \in CredentialPasswordInputs : verifyTeacherPassword(item, pw).ok}

C11_ChangeStep ==
    (/\ lastCall'.op = "changeTeacherPassword"
     /\ <<lastCall, teacherPasswordItem>>' # <<lastCall, teacherPasswordItem>>) =>
        IF lastCall'.name \in Verifying(teacherPasswordItem)
        THEN /\ lastCall'.result.ok
             /\ verifyTeacherPassword(teacherPasswordItem', lastCall'.password).ok
             /\ teacherPasswordItem' = simpleHash(lastCall'.password)
        ELSE /\ ~lastCall'.result.ok
             /\ KindOf(lastCall'.result.error) = InvalidCredentials
             /\ Verifying(teacherPasswordItem') = Verifying(teacherPasswordItem)
             /\ getTeacherPassword(teacherPasswordItem')
                    = getTeacherPassword(teacherPasswordItem)

\* C11: changeTeacherPassword(old, new) throws the InvalidCredentials error
\* when old does not verify, and the passwords that verify afterwards are
\* those that verified before (on a fresh store too, where the default is
\* written); when old verifies, the credential becomes the hash of new and
\* new verifies afterwards.
C11_ChangeTeacherPassword == [][C11_ChangeStep]_vars

\* a change was refused on a fresh store, which now holds the default
C11_Witness ==
    /\ lastCall.op = "changeTeacherPassword"
    /\ ~lastCall.result.ok
    /\ lastCall.name = s_1234
    /\ teacherPasswordItem = simpleHash(s_0000)

\* ------------------------------------------------------------ C12
\* the gateway operations that use the API key
GatewayOperations ==
    {"getChatResponse", "getFinalChatResponse", "getFinalSummary",
     "getMoodMeterQuadrant"}

\* C12: with no API key stored, a call of getChatResponse,
\* getFinalChatResponse, getFinalSummary or getMoodMeterQuadrant fails with
\* CredentialMissing and no request is sent to the provider, whatever the
\* provider would have answered.
C12_CredentialMissing ==
    (gatewayCall.op \in GatewayOperations /\ ~KeyPresent) =>
        /\ ~gatewayCall.result.ok
        /\ gatewayCall.result.error = CredentialMissing
        /\ ~gatewayCall.sent

\* getFinalSummary was called with no key while the provider would have
\* answered with a summary
C12_Witness ==
    /\ gatewayCall.op = "getFinalSummary"
    /\ ~KeyPresent
    /\ gatewayCall.outcome.kind = "json"
    /\ gatewayCall.result = Threw(CredentialMissing)

\* ------------------------------------------------------------ C13
\* the chat shown is Complete: its summary is shown and its Conversation is
\* the last one stored under the user's name
Complete ==
    /\ student.studentView = "chat"
    /\ chat.finalSummary # NoSummary
    /\ student.currentUser.name \in DOMAIN conversations
    /\ LET stored == conversations[student.currentUser.name]
       IN  /\ stored[Len(stored)].messages = chat.messages
           /\ stored[Len(stored)].summary = chat.finalSummary

\* in a Complete chat handleSendMessage refuses every input
C13_Refused ==
    Complete => \A userInput \in ChatInputs : ~SendAccepted(chat, userInput)

\* a step from a Complete chat either leaves the chat, the store and the
\* record of gateway calls as they are, or closes the chat
C13_CompleteStep ==
    Complete =>
        /\ conversations' = conversations
        /\ gatewayCall' = gatewayCall
        /\ chat' = chat \/ chat' = NoChat

\* the store is written by a chat that has no summary yet, which then has one
C13_OncePerChat ==
    conversations' # conversations =>
        chat.finalSummary = NoSummary /\ chat'.finalSummary # NoSummary

\* C13: once a chat is Complete no input is accepted: no step changes its
\* messages, its turn counter, its summary or the conversation store, and
\* none makes a gateway call; a chat writes the store at most once, in the
\* step that produces its summary.
C13_CompleteIsFinal ==
    []C13_Refused /\ [][C13_CompleteStep /\ C13_OncePerChat]_vars

\* a chat in which no call failed is Complete
C13_Witness ==
    /\ Complete
    /\ Len(chat.messages) = 2 * MAX_TURNS + 1
    /\ ~chat.isAITyping

\* ------------------------------------------------------------ C14
\* the list stored under name, empty when there is none
StoredUnder(store, name) ==
    IF name \in DOMAIN store THEN store[name] ELSE <<>>

C14_StoreStep ==
    conversations' # conversations =>
        LET name == student.currentUser.name
            before == StoredUnder(conversations, name)
            after == StoredUnder(conversations', name)
        IN  /\ student.studentView = "chat"
            /\ chat.pending.op = "summarize"
            /\ chat.finalSummary = NoSummary
            /\ chat'.finalSummary # NoSummary
            /\ gatewayCall'.op = "summarize" /\ gatewayCall'.result.ok
            /\ DOMAIN conversations' = DOMAIN conversations \cup {name}
            /\ \A k \in DOMAIN conversations \ {name} :
                  conversations'[k] = conversations[k]
            /\ Len(after) = Len(before) + 1
            /\ SubSeq(after, 1, Len(before)) = before
            /\ after[Len(after)].messages = chat.messages
            /\ after[Len(after)].summary = chat'.finalSummary

C15_NotPersisted == teacher.isLoggedIn => app.view = "teacher"

C15_TeacherStep ==
    \* resetStudentPassword is invoked
    /\ users' # users => teacher.isLoggedIn
    \* changeTeacherPassword is invoked (the login form's verification only
    \* writes the default on a fresh store)
    /\ (teacherPasswordItem' # teacherPasswordItem /\ teacherPasswordItem # NoItem)
          => teacher.isLoggedIn
    \* the dashboard is computed
    /\ (dash' # dash /\ dash' # NoDash) => teacher'.isLoggedIn
    \* the flag becomes true
    /\ (~teacher.isLoggedIn /\ teacher'.isLoggedIn) =>
          /\ app.view = "teacher"
          /\ lastCall'.op = "verifyTeacherPassword"
          /\ lastCall'.result.ok
          /\ simpleHash(lastCall'.password) = getTeacherPassword(teacherPasswordItem)
    \* the teacher view is entered from the landing page
    /\ (app.view # "teacher" /\ app'.view = "teacher") => ~teacher'.isLoggedIn

\* C15: the dashboard is computed and resetStudentPassword and
\* changeTeacherPassword are invoked only while isLoggedIn is true;
\* isLoggedIn becomes true only in a step in which verifyTeacherPassword
\* returned true; it lives in the mounted TeacherView only and is false
\* whenever the teacher view is entered from the landing page.
C15_TeacherGate == []C15_NotPersisted /\ [][C15_TeacherStep]_vars

\* the unlocked teacher has reset a student's password and changed the
\* teacher password
C15_Witness ==
    /\ teacher.isLoggedIn
    /\ teacherPasswordItem = simpleHash(s_1234)
    /\ \E i \in 1..Len(users) : users[i].passwordHash = simpleHash(s_0000)
    /\ ~dash.isLoading

\* ------------------------------------------------------------ C16
\* MoodMeterDashboard is mounted
DashboardMounted == TeacherPagesShown /\ teacher.teacherView = "dashboard"

\* C16: whatever the provider does and whatever the state of the stored
\* API key, once no classification call of the mounted dashboard is
\* outstanding, loading has ended and the buckets are published, one entry
\* for every student classified; and nothing is published while a call is
\* outstanding.
C16_DashboardCompletes ==
    DashboardMounted =>
        /\ dash.awaiting = {} =>
              /\ ~dash.isLoading
              /\ {m.name : m \in dash.studentMoods} = DOMAIN dash.latestMoods
        /\ dash.awaiting # {} => dash.isLoading /\ dash.studentMoods = {}

\* ------------------------------------------------------------------ C17

\* the coach's messages of a transcript after the greeting, in order
Replies(messages) ==
    LET FromCoach(m) == m.sender = "ai"
    IN  SelectSeq(Tail(messages), FromCoach)

\* MAX_TURNS - 1 questions followed by one closing remark, which ends the
\* transcript
ClosedInOrder(messages) ==
    LET replies == Replies(messages)
    IN  /\ Len(replies) = MAX_TURNS
        /\ \A i \in 1..(MAX_TURNS - 1) : replies[i].text = s_question
        /\ replies[MAX_TURNS].text = s_bye
        /\ messages[Len(messages)] = Message("ai", s_bye)

\* the call made for an input is the closing one exactly when the input
\* brings the turn counter to MAX_TURNS
C17_InvokeStep ==
    (chat.pending.op = "none" /\ chat'.pending.op # "none") =>
        /\ chat.turnCount + 1 <= MAX_TURNS
        /\ chat'.pending.op =
              IF chat.turnCount + 1 = MAX_TURNS THEN "close" ELSE "continue"

\* the summary is asked for in the step in which the closing call succeeded
C17_SummarizeStep ==
    (chat'.pending.op = "summarize" /\ chat.pending.op # "summarize") =>
        /\ chat.pending.op = "close"
        /\ gatewayCall'.op = "close"
        /\ gatewayCall'.result.ok
        /\ chat'.turnCount = MAX_TURNS

\* the turn counter counts the replies received; a summarised chat and every
\* stored Conversation hold the questions and then the closing remark
C17_Transcripts ==
    /\ chat.messages # <<>> => Len(Replies(chat.messages)) = chat.turnCount
    /\ chat.pending.op = "summarize" => ClosedInOrder(chat.pending.history)
    /\ chat.finalSummary # NoSummary => ClosedInOrder(chat.messages)
    /\ \A c \in StoredConversationsOf(conversations) : ClosedInOrder(c.messages)

\* C17: the call made for a user input is getFinalChatResponse exactly when
\* the input brings the turn counter to MAX_TURNS and getChatResponse for
\* every earlier turn; getFinalSummary is called only in the step in which
\* getFinalChatResponse succeeded; so a completed chat and every stored
\* Conversation hold MAX_TURNS - 1 questions and then one closing remark,
\* which is the last message of the transcript.
C17_CloseAtMaxTurns ==
    []C17_Transcripts /\ [][C17_InvokeStep /\ C17_SummarizeStep]_vars

\* a completed chat whose stored transcript ends with the closing remark,
\* after a call failed on the way
C17_Witness ==
    /\ Complete
    /\ chat.turnCount = MAX_TURNS
    /\ chat.messages[Len(chat.messages)].text = s_bye
    /\ gatewayCall.op = "summarize"
    /\ CountFrom(chat.messages, "user") > MAX_TURNS

\* ------------------------------------------------------------------ C18

\* the Conversations stored under name whose timestamp no other exceeds
NewestOf(name) ==
    LET stored == conversations[name]
    IN  {stored[i] : i \in {j \in 1..Len(stored) :
                               \A k \in 1..Len(stored) :
                                   stored[k].timestamp <= stored[j].timestamp}}

\* the mood and timestamp read for name are those of one of its newest
\* Conversations
ReadFromNewest(name, entry) ==
    \E c \in NewestOf(name) :
        entry.mood = c.summary.mood /\ entry.timestamp = c.timestamp

\* C18: while the dashboard is mounted, the mood and timestamp it sends to
\* classification for a student with a stored Conversation, and those it
\* displays once loaded, are the mood and timestamp of a Conversation of
\* that student whose timestamp is the maximum of the student's stored
\* Conversations, wherever in the stored list that Conversation is.
C18_LatestConversation ==
    DashboardMounted =>
        \A name \in StudentsWithConversation :
            /\ name \in DOMAIN dash.latestMoods
            /\ ReadFromNewest(name, dash.latestMoods[name])
            /\ ~dash.isLoading =>
                  \E m \in dash.studentMoods :
                      /\ m.name = name
                      /\ ReadFromNewest(name, m)
                      /\ \A o \in dash.studentMoods : o.name = name => o = m

\* the dashboard shows the mood of the second of two stored Conversations,
\* the newer one
C18_Witness ==
    /\ DashboardShown
    /\ s_Kim \in DOMAIN conversations
    /\ Len(conversations[s_Kim]) = 2
    /\ conversations[s_Kim][1].timestamp < conversations[s_Kim][2].timestamp
    /\ conversations[s_Kim][1].summary.mood # conversations[s_Kim][2].summary.mood
    /\ \E m \in dash.studentMoods :
          /\ m.name = s_Kim
          /\ m.mood = conversations[s_Kim][2].summary.mood
          /\ m.timestamp = conversations[s_Kim][2].timestamp

\* ------------------------------------------------------------------ C19

\* coach and user speak in turn, the coach first
Alternates(messages) ==
    \A i \in 1..Len(messages) :
        messages[i].sender = IF i % 2 = 1 THEN "ai" ELSE "user"

\* C19: in every state of a chat the messages alternate ai, user, ai, ...
\* from the greeting on, and every stored Conversation alternates and has
\* exactly 2 * MAX_TURNS + 1 messages, also after failed calls and retries.
\* (Violated: handleSendMessage shows the user's message before the call and
\* its catch block does not take it back, so the retry appends a second
\* user message after the first.)
C19_Alternating ==
    /\ Alternates(chat.messages)
    /\ \A c \in StoredConversationsOf(conversations) :
          /\ Alternates(c.messages)
          /\ Len(c.messages) = 2 * MAX_TURNS + 1

\* ------------------------------------------------------------------ C20

\* the session item is written in two ways only: cleared, by the logout of
\* the student shown; or set to a stored account, by the login that makes
\* that account the student shown
C20_SessionWritten ==
    currentUserItem' # currentUserItem =>
        /\ users' = users
        /\ \/ /\ currentUserItem' = NoUser
              /\ student.currentUser # NoUser
              /\ student'.currentUser = NoUser
           \/ /\ \E i \in 1..Len(users) : users[i] = currentUserItem'
              /\ student.currentUser = NoUser
              /\ student'.currentUser = currentUserItem'

\* a step that writes the accounts (signupUser, resetStudentPassword), the
\* teacher password (changeTeacherPassword) or the conversation store
\* (saveConversation) leaves the session item as it was
C20_SessionFrame ==
    (\/ users' # users
     \/ teacherPasswordItem' # teacherPasswordItem
     \/ conversations' # conversations) => currentUserItem' = currentUserItem

\* the logout of the student shown leaves no session, whether or not there
\* was one
C20_LogoutClears ==
    (/\ app.view = "student" /\ app'.view = "student"
     /\ student.currentUser # NoUser /\ student'.currentUser = NoUser)
        => currentUserItem' = NoUser

\* C20: the session item is written only by a successful loginUser, which
\* sets it to the matched account, and by logoutUser, which clears it and
\* changes nothing when there is none; signupUser, a failed loginUser,
\* resetStudentPassword, changeTeacherPassword and saveConversation leave it
\* as it was, so that a signup establishes no session and a teacher's reset
\* of the logged-in account neither ends nor updates that account's session.
C20_SessionStore ==
    [][C20_SessionWritten /\ C20_SessionFrame /\ C20_LogoutClears]_vars

\* the teacher has reset the password of the account the session names, and
\* the session still holds the account as it was at login
C20_Witness ==
    /\ currentUserItem # NoUser
    /\ currentUserItem.passwordHash # simpleHash(s_0000)
    /\ \E i \in 1..Len(users) :
          /\ users[i].name = currentUserItem.name
          /\ users[i].passwordHash = simpleHash(s_0000)

\* ------------------------------------------------------------------ C21

\* the positions of the accounts stored under exactly this name
StoredExactly(name) == {i \in 1..Len(users) : users[i].name = name}

\* what a call of resetStudentPassword does to the 'users' array
C21_ResetStep ==
    lastCall'.op = "resetStudentPassword" =>
        LET name == lastCall'.name
        IN  /\ Len(users') = Len(users)
            /\ \A i \in 1..Len(users) : users'[i].name = users[i].name
            /\ \A i \in 1..Len(users) :
                  users[i].name # name => users'[i] = users[i]
            /\ Cardinality(StoredExactly(name)) <= 1
            /\ \A i \in StoredExactly(name) :
                  users'[i].passwordHash = simpleHash(s_0000)
            /\ StoredExactly(name) = {} => users' = users

\* C21: resetStudentPassword(name) changes at most the passwordHash of the
\* one account whose stored name is exactly name, and leaves every name,
\* every other account and the order of the list as they were; when no
\* stored name is exactly name, also when one differs from it only in case
\* (which loginUser would match), the 'users' array is left as it was.
C21_ResetFrame == [][C21_ResetStep]_vars

\* resetStudentPassword was just called with a name that differs only in
\* case from the second account's, whose hash is still that of its signup
\* password, after an earlier call had reset the first account
C21_Witness ==
    /\ lastCall.op = "resetStudentPassword"
    /\ lastCall.name = s_KIM
    /\ Len(users) = 2
    /\ users[1] = User(s_Lee, simpleHash(s_0000))
    /\ users[2] = User(s_Kim, simpleHash(s_1234))
    /\ <<s_Lee, s_1234>> \in signupPassword
    /\ s_Lee \in resetNames
    /\ FindUser(users, s_KIM) = users[2]

\* ------------------------------------------------------------------ C22

\* isAITyping is set exactly while a call of the chat is awaited, and then
\* handleSendMessage refuses every input, as it does a blank one at any time
C22_Refused ==
    /\ chat.isAITyping <=> chat.pending.op # "none"
    /\ \A userInput \in ChatInputs :
          (chat.isAITyping \/ trim(userInput) = <<>>)
              => ~SendAccepted(chat, userInput)

\* while a call is awaited the chat changes only by that call's answer (or
\* by being unmounted): no user message is added, the next call, if any, is
\* the summary after the closing reply, and the flag is cleared when none
\* follows
C22_AwaitingStep ==
    (chat.pending.op # "none" /\ chat' # chat) =>
        \/ chat' = NoChat
        \/ /\ gatewayCall'.op = chat.pending.op
           /\ CountFrom(chat'.messages, "user") = CountFrom(chat.messages, "user")
           /\ chat'.pending.op \in {"none", "summarize"}
           /\ chat'.pending.op = "summarize" => chat.pending.op = "close"
           /\ chat'.pending.op = "none" => ~chat'.isAITyping
           /\ ~gatewayCall'.result.ok =>
                 /\ chat'.pending.op = "none"
                 /\ chat'.turnCount = chat.turnCount
                 /\ chat'.error # NoError

\* a user message is added only with no call awaited; it is not blank, it
\* starts exactly one call and leaves the turn counter as it was
C22_SendStep ==
    CountFrom(chat'.messages, "user") > CountFrom(chat.messages, "user") =>
        /\ chat.pending.op = "none"
        /\ ~chat.isAITyping
        /\ chat'.messages = Append(chat.messages,
                                   chat'.messages[Len(chat'.messages)])
        /\ trim(chat'.messages[Len(chat'.messages)].text) # <<>>
        /\ chat'.pending.op \in {"continue", "close"}
        /\ chat'.isAITyping
        /\ chat'.turnCount = chat.turnCount

\* C22: at most one gateway call of a chat is awaited at a time: while
\* isAITyping is set, and for an empty or whitespace-only input,
\* handleSendMessage does nothing (no message added, turn counter kept, no
\* second call); isAITyping is cleared when the chain of calls ends, after
\* a success and after a failure.
C22_OneCallInFlight ==
    []C22_Refused /\ [][C22_AwaitingStep /\ C22_SendStep]_vars

\* a reply is awaited in a chat that is not over, after an earlier call
\* failed and its flag was cleared: an input that would be sent is refused
C22_Witness ==
    /\ chat.isAITyping
    /\ chat.pending.op = "continue"
    /\ ~chat.isConversationOver
    /\ ~SendAccepted(chat, s_hi)
    /\ SendAccepted([chat EXCEPT !.isAITyping = FALSE], s_hi)
    /\ CountFrom(chat.messages, "user") > chat.turnCount + 1

\* ------------------------------------------------------------------ C23

\* 31 * h + c reduced to a signed 32-bit integer, by multiplication on
\* 16-bit limbs
Wrap31(h, c) ==
    LET lo == 31 * Lo16(h) + c
        hi == 31 * Hi16(h) + (lo \div 65536)
    IN  FromLimbs(hi % 65536, lo % 65536)

\* the fold h := 31 * h + c, wrapped at every step, over the first n code
\* units of s
RECURSIVE FoldWrapped(_, _)
FoldWrapped(s, n) ==
    IF n = 0 THEN 0 ELSE Wrap31(FoldWrapped(s, n - 1), s[n])

\* the hashes of the four-digit passwords
FourDigitHashes == {simpleHash(p) : p \in FourDigitPasswords}

\* simpleHash returns the decimal form of the wrapped fold; the four-digit
\* passwords are the strings the form accepts, and they have as many
\* hashes as there are of them: no two share one
C23_Hashed ==
    lastCall.op = "simpleHash" =>
        LET s == lastCall.password
            hash == lastCall.result.value
        IN  /\ hash = NumberToString(FoldWrapped(s, Len(s)))
            /\ validatePassword(s) <=> s \in FourDigitPasswords
            /\ s \in FourDigitPasswords =>
                  /\ hash \in FourDigitHashes
                  /\ Cardinality(FourDigitHashes) = Cardinality(FourDigitPasswords)

\* a login attempt on an account created with a four-digit password
\* succeeds with that password and fails with every other four-digit one,
\* leaving the session as it was
C23_LoginStep ==
    (lastCall.op = "signupUser" /\ lastCall'.op = "loginUser") =>
        /\ lastCall.password \in FourDigitPasswords
        /\ lastCall'.password \in FourDigitPasswords
        /\ IF lastCall'.password = lastCall.password
           THEN lastCall'.result = Returned(users[1])
           ELSE /\ lastCall'.result = Threw(InvalidCredentials)
                /\ currentUserItem' = currentUserItem

\* C23: simpleHash computes the fold h := 31 * h + c over the code units of
\* its argument, wrapped to a signed 32-bit integer at every step, and is
\* injective on the 10,000 four-digit passwords the student form accepts;
\* so loginUser with a four-digit password other than the one an account
\* was created with fails with InvalidCredentials.
C23_SimpleHash == []C23_Hashed /\ [][C23_LoginStep]_vars

\* a login with a four-digit password that differs from the sign-up
\* password in its last digit only has just failed
C23_Witness ==
    /\ lastCall.op = "loginUser"
    /\ lastCall.password = <<49, 50, 51, 53>>
    /\ lastCall.result = Threw(InvalidCredentials)
    /\ users = <<User(s_Kim, simpleHash(s_1234))>>
    /\ currentUserItem = NoUser

====
